---------------------------- MODULE Spec2Model ----------------------------
(***************************************************************************)
(* A model of zfbv (src/main.c): a framebuffer image viewer.               *)
(*                                                                         *)
(*  - IEEE-754 single precision arithmetic (the C type float) on the       *)
(*    non-negative normal numbers the program computes with, as a pair     *)
(*    (m, e) standing for m * 2^e with 2^23 <= m < 2^24, or m = 0.         *)
(*  - Image_resize_linear, framebuffer_clear_color, framebuffer_draw_image *)
(*    and framebuffer_update on byte arrays indexed from 0 as in C.        *)
(*  - main(): device open, decode, initial resize, the keystroke loop and  *)
(*    the cleanup, with the heap objects and OS resources it owns.         *)
(***************************************************************************)
EXTENDS Integers, Sequences, FiniteSets, TLC

(***************************************************************************)
(* Single precision floating point                                         *)
(***************************************************************************)
Two12 == 2 ^ 12
Two23 == 2 ^ 23
Two24 == 2 ^ 24

FZero == [m |-> 0, e |-> 0]
\* +infinity, the quotient of a positive number by zero
FInf == [m |-> 0, e |-> 1]

\* 0.8f = 0x3F4CCCCD
F0_8 == [m |-> 13421773, e |-> -24]
\* 1.2f = 0x3F99999A
F1_2 == [m |-> 10066330, e |-> -23]
\* 0.1f = 0x3DCCCCCD
F0_1 == [m |-> 13421773, e |-> -27]
\* 5.0f = 0x40A00000
F5_0 == [m |-> 10485760, e |-> -21]

RECURSIVE FNorm(_, _)
\* the float of value m * 2^e, for 0 <= m < 2^24 (exact: no rounding needed)
FNorm(m, e) ==
    IF m = 0 THEN FZero
    ELSE IF m >= Two23 THEN [m |-> m, e |-> e]
    ELSE FNorm(2 * m, e - 1)

\* (float) i, for an int 0 <= i < 2^24
IntToFloat(i) == FNorm(i, 0)

\* round to nearest, ties to even: q the 24-bit significand, rnd the first
\* discarded bit, sticky whether any later discarded bit is set
FRound(q, rnd, sticky, e) ==
    LET up == rnd = 1 /\ (sticky \/ q % 2 = 1)
        q1 == IF up THEN q + 1 ELSE q
    IN  IF q1 = Two24 THEN [m |-> Two23, e |-> e + 1] ELSE [m |-> q1, e |-> e]

\* a * b in single precision
FMul(a, b) ==
    IF a.m = 0 \/ b.m = 0 THEN
        (IF a = FInf \/ b = FInf THEN FInf ELSE FZero)
    ELSE
        LET h1 == a.m \div Two12
            l1 == a.m % Two12
            h2 == b.m \div Two12
            l2 == b.m % Two12
            mid == h1 * l2 + l1 * h2
            low == l1 * l2 + (mid % Two12) * Two12
            \* the 48-bit product is hi * 2^24 + lo
            hi == h1 * h2 + (mid \div Two12) + (low \div Two24)
            lo == low % Two24
        IN  IF hi >= Two23 THEN
                FRound(hi, lo \div Two23, lo % Two23 # 0, a.e + b.e + 24)
            ELSE
                FRound(2 * hi + (lo \div Two23), (lo % Two23) \div (Two23 \div 2),
                       lo % (Two23 \div 2) # 0, a.e + b.e + 23)

RECURSIVE DivBits(_, _, _, _)
\* long division, 6 quotient bits per step: <<quotient, remainder>> after n steps
DivBits(q, r, d, n) ==
    IF n = 0 THEN <<q, r>>
    ELSE DivBits(q * 64 + ((r * 64) \div d), (r * 64) % d, d, n - 1)

\* a / b in single precision
FDiv(a, b) ==
    IF b.m = 0 THEN FInf
    ELSE IF a.m = 0 THEN FZero
    ELSE
        LET qr == DivBits(a.m \div b.m, a.m % b.m, b.m, 4)
            \* q = floor(a.m * 2^24 / b.m), 2^23 <= q < 2^25
            q == qr[1]
            r == qr[2]
        IN  IF q >= Two24 THEN
                FRound(q \div 2, q % 2, r # 0, a.e - b.e - 23)
            ELSE
                FRound(q, IF 2 * r >= b.m THEN 1 ELSE 0,
                       (2 * r) % b.m # 0, a.e - b.e - 24)

\* a < b, for non-negative finite a and b
FLess(a, b) ==
    IF b.m = 0 THEN FALSE
    ELSE IF a.m = 0 THEN TRUE
    ELSE a.e < b.e \/ (a.e = b.e /\ a.m < b.m)

\* (int) a: truncation toward zero
FTrunc(a) ==
    IF a.m = 0 THEN 0
    ELSE IF a.e >= 0 THEN a.m * (2 ^ a.e)
    ELSE IF a.e <= -24 THEN 0
    ELSE a.m \div (2 ^ (0 - a.e))


(***************************************************************************)
(* Images (struct Image, lines 22-28) and Image_resize_linear              *)
(***************************************************************************)
\* the struct Image_load fills in for a decoded w x h picture: 3 channels
MakeImage(addr, w, h, data) ==
    [addr |-> addr, width |-> w, height |-> h, bpp |-> 3, stride |-> w * 3,
     data |-> data]

\* src_x = (int) (x * x_ratio)
SrcCoord(x, ratio) == FTrunc(FMul(IntToFloat(x), ratio))

\* the struct and pixel data Image_resize_linear returns when both of its
\* allocations succeed
Image_resize_linear_result(addr, src, new_width, new_height) ==
    LET stride == new_width * src.bpp
        x_ratio == FDiv(IntToFloat(src.width), IntToFloat(new_width))
        y_ratio == FDiv(IntToFloat(src.height), IntToFloat(new_height))
        src_x == [x \in 0 .. new_width - 1 |-> SrcCoord(x, x_ratio)]
        src_y == [y \in 0 .. new_height - 1 |-> SrcCoord(y, y_ratio)]
        Pixel(i) ==
            LET y == i \div stride
                x == (i % stride) \div src.bpp
                c == i % src.bpp
            IN  src.data[src_y[y] * src.stride + src_x[x] * src.bpp + c]
    IN  [addr |-> addr, width |-> new_width, height |-> new_height,
         bpp |-> src.bpp, stride |-> stride,
         data |-> [i \in 0 .. new_height * stride - 1 |-> Pixel(i)]]

(***************************************************************************)
(* The framebuffer (struct framebuffer, lines 12-19): fbp is the contents  *)
(* of the device mapping, buffer the contents of the shadow buffer.        *)
(***************************************************************************)
ScreenSize(fb) == fb.width * fb.height * fb.bpp

\* memcpy(fb->fbp, fb->buffer, screensize)
framebuffer_update(fb) ==
    [fb EXCEPT !.fbp = [i \in DOMAIN fb.fbp |->
                           IF i < ScreenSize(fb) THEN fb.buffer[i] ELSE fb.fbp[i]]]

RECURSIVE ClearFrom(_, _, _, _, _, _, _)
\* the loop of framebuffer_clear_color from byte i on
ClearFrom(buf, i, screensize, bpp, r, g, b) ==
    IF i >= screensize THEN buf
    ELSE ClearFrom([buf EXCEPT ![i] = b, ![i + 1] = g, ![i + 2] = r],
                   i + bpp, screensize, bpp, r, g, b)

framebuffer_clear_color(fb, r, g, b) ==
    IF fb.bpp < 3 THEN fb
    ELSE [fb EXCEPT !.buffer = ClearFrom(fb.buffer, 0, ScreenSize(fb), fb.bpp, r, g, b)]

\* the image channel copied to device byte c of a pixel
SrcChannelSameOrder(bpp, c) == c

SrcChannel(bpp, c) == bpp - 1 - c

ScreenXStart(x_offset) == IF x_offset < 0 THEN 0 ELSE x_offset
ScreenXEndUnclipped(fb, x_offset, img) == x_offset + img.width

ScreenXEnd(fb, x_offset, img) ==
    IF x_offset + img.width > fb.width THEN fb.width ELSE x_offset + img.width
ScreenYStart(y_offset) == IF y_offset < 0 THEN 0 ELSE y_offset
ScreenYEnd(fb, y_offset, img) ==
    IF y_offset + img.height > fb.height THEN fb.height ELSE y_offset + img.height

RECURSIVE DrawChannels(_, _, _, _, _)
\* the innermost loop of framebuffer_draw_image from channel c on
DrawChannels(buf, img, fb_idx, img_idx, c) ==
    IF c >= img.bpp THEN buf
    ELSE DrawChannels([buf EXCEPT ![fb_idx + c] = img.data[img_idx + SrcChannel(img.bpp, c)]],
                      img, fb_idx, img_idx, c + 1)

RECURSIVE DrawRow(_, _, _, _, _, _, _, _)
\* the loop over x of framebuffer_draw_image from column x on
DrawRow(buf, fb, img, x_offset, fb_row_offset, img_row_offset, x, x_end) ==
    IF x >= x_end THEN buf
    ELSE LET img_x == x - x_offset
             fb_idx == fb_row_offset + (x * fb.bpp)
             img_idx == img_row_offset + (img_x * img.bpp)
         IN  DrawRow(DrawChannels(buf, img, fb_idx, img_idx, 0), fb, img, x_offset,
                     fb_row_offset, img_row_offset, x + 1, x_end)

RECURSIVE DrawRows(_, _, _, _, _, _, _, _, _)
\* the loop over y of framebuffer_draw_image from row y on
DrawRows(buf, fb, img, x_offset, y_offset, x_start, x_end, y, y_end) ==
    IF y >= y_end THEN buf
    ELSE LET fb_row_offset == y * fb.width * fb.bpp
             img_y == y - y_offset
             img_row_offset == img_y * img.width * img.bpp
         IN  DrawRows(DrawRow(buf, fb, img, x_offset, fb_row_offset, img_row_offset,
                              x_start, x_end),
                      fb, img, x_offset, y_offset, x_start, x_end, y + 1, y_end)

framebuffer_draw_image(fb, x_offset, y_offset, img) ==
    LET screen_x_start == ScreenXStart(x_offset)
        screen_y_start == ScreenYStart(y_offset)
        screen_x_end == ScreenXEnd(fb, x_offset, img)
        screen_y_end == ScreenYEnd(fb, y_offset, img)
    IN  IF screen_x_start >= screen_x_end \/ screen_y_start >= screen_y_end THEN fb
        ELSE IF fb.bpp < 3 THEN fb
        ELSE [fb EXCEPT !.buffer =
                 DrawRows(fb.buffer, fb, img, x_offset, y_offset,
                          screen_x_start, screen_x_end, screen_y_start, screen_y_end)]

(***************************************************************************)
(* Heap blocks and OS resources.  A resource is <<kind, addr>>; heap.live  *)
(* holds the resources currently held, heap.faults the releases of a       *)
(* resource that is not held and the uses of one already released.         *)
(***************************************************************************)
NULL == [addr |-> 0]

EmptyHeap == [live |-> {}, faults |-> {}]

Alloc(h, r) == [h EXCEPT !.live = @ \cup {r}]

Free(h, r) ==
    IF r \in h.live THEN [h EXCEPT !.live = @ \ {r}]
    ELSE [h EXCEPT !.faults = @ \cup {<<"released twice", r>>}]

Use(h, r) ==
    IF r \in h.live THEN h
    ELSE [h EXCEPT !.faults = @ \cup {<<"used after release", r>>}]

\* malloc returns the lowest address no live Image struct or pixel block has
NewAddr(h) ==
    CHOOSE a \in 1 .. Cardinality(h.live) + 1 :
        /\ <<"image", a>> \notin h.live
        /\ <<"data", a>> \notin h.live
        /\ \A b \in 1 .. a - 1 : <<"image", b>> \in h.live \/ <<"data", b>> \in h.live

\* reading the pixels of an image through its pointer
UseImage(h, image) == Use(Use(h, <<"image", image.addr>>), <<"data", image.addr>>)

\* drawing through the framebuffer pointer
UseFramebuffer(h) == Use(Use(Use(h, <<"fb", 0>>), <<"buffer", 0>>), <<"mmap", 0>>)

\* Image_free
Image_free_leaking_data(h, image) ==
    IF image = NULL THEN h ELSE Free(h, <<"image", image.addr>>)

Image_free(h, image) ==
    IF image = NULL THEN h
    ELSE Free(Free(h, <<"data", image.addr>>), <<"image", image.addr>>)

\* framebuffer_destroy
framebuffer_destroy(h, fb) ==
    IF fb = NULL THEN h
    ELSE Free(Free(Free(Free(h, <<"mmap", 0>>), <<"fd", 0>>), <<"buffer", 0>>), <<"fb", 0>>)

\* what the device shows before the program writes to it
DeviceMemory(n) == [i \in 0 .. n - 1 |-> 0]

CreateFailures == {"none", "malloc", "open", "ioctl", "mmap", "buffer"}

\* framebuffer_create on a device of geometry dev = <<xres, yres, bytes per
\* pixel>>: fail names the step that fails, uninit is what malloc's block
\* holds.  Returns the pointer and the heap.
framebuffer_create(h, dev, fail, uninit) ==
    LET screensize == dev[1] * dev[2] * dev[3]
        h1 == Alloc(h, <<"fb", 0>>)
        h2 == Alloc(h1, <<"fd", 0>>)
        h3 == Alloc(h2, <<"mmap", 0>>)
        h4 == Alloc(h3, <<"buffer", 0>>)
    IN  CASE fail = "malloc" -> [fb |-> NULL, heap |-> h]
          [] fail = "open" -> [fb |-> NULL, heap |-> Free(h1, <<"fb", 0>>)]
          [] fail = "ioctl" ->
                [fb |-> NULL, heap |-> Free(Free(h2, <<"fd", 0>>), <<"fb", 0>>)]
          [] fail = "mmap" ->
                [fb |-> NULL, heap |-> Free(Free(h2, <<"fd", 0>>), <<"fb", 0>>)]
          [] fail = "buffer" ->
                [fb |-> NULL,
                 heap |-> Free(Free(Free(h3, <<"mmap", 0>>), <<"fd", 0>>), <<"fb", 0>>)]
          [] OTHER ->
                [fb |-> [addr |-> 1, fd |-> 3, fbp |-> DeviceMemory(screensize),
                         buffer |-> uninit, width |-> dev[1], height |-> dev[2],
                         bpp |-> dev[3]],
                 heap |-> h4]

LoadFailures == {"none", "malloc", "decode"}

\* Image_load of a file that decodes to the picture pic = [w, h, data]
Image_load(h, pic, fail) ==
    LET a == NewAddr(h)
        h1 == Alloc(h, <<"image", a>>)
    IN  CASE fail = "malloc" -> [img |-> NULL, heap |-> h]
          [] fail = "decode" -> [img |-> NULL, heap |-> Free(h1, <<"image", a>>)]
          [] OTHER -> [img |-> MakeImage(a, pic.w, pic.h, pic.data),
                       heap |-> Alloc(h1, <<"data", a>>)]

ResizeFailures == {"none", "struct", "data"}

\* Image_resize_linear with its allocations: fail names the one that fails
Image_resize_linear(h, src, new_width, new_height, fail) ==
    LET a == NewAddr(h)
        h1 == Alloc(h, <<"image", a>>)
    IN  CASE fail = "struct" -> [image |-> NULL, heap |-> h]
          [] fail = "data" ->
                [image |-> NULL, heap |-> Free(UseImage(h1, src), <<"image", a>>)]
          [] OTHER -> [image |-> Image_resize_linear_result(a, src, new_width, new_height),
                       heap |-> Alloc(UseImage(h1, src), <<"data", a>>)]

(***************************************************************************)
(* main(): the scale arithmetic                                            *)
(***************************************************************************)
\* scale_w < scale_h ? scale_w : scale_h
FMin(a, b) == IF FLess(a, b) THEN a ELSE b

\* default_scale, lines 68-71
DefaultScale(fb, img) ==
    LET scale_w == FDiv(IntToFloat(fb.width), IntToFloat(img.width))
        scale_h == FDiv(IntToFloat(fb.height), IntToFloat(img.height))
    IN  FMul(FMin(scale_w, scale_h), F0_8)

\* (int) (img->width * scale)
ResizedDim(n, s) == FTrunc(FMul(IntToFloat(n), s))

\* the key's effect on scale, lines 108-116 ("x" is any other character)
Keys == {"r", "+", "-", "q", "x"}

KeyScale(ch, s, dflt) ==
    CASE ch = "r" -> dflt
      [] ch = "+" -> FMul(s, F1_2)
      [] ch = "-" -> FDiv(s, F1_2)
      [] OTHER -> s

\* lines 124-125
Clamp(s) ==
    LET s1 == IF FLess(s, F0_1) THEN F0_1 ELSE s
    IN  IF FLess(F5_0, s1) THEN F5_0 ELSE s1

\* line 126: scale == prev_scale
NeverNoChange(s, prev) == FALSE

NoChange(s, prev) == s = prev

\* (fb->width - resized->width) / 2: C division truncates toward zero
CenterPos(fb_dim, img_dim) ==
    LET d == fb_dim - img_dim
    IN  IF d >= 0 THEN d \div 2 ELSE 0 - ((0 - d) \div 2)

(***************************************************************************)
(* The state                                                               *)
(***************************************************************************)
VARIABLES
    pc,             \* where main() is
    fb,             \* framebuffer *fb and what it points to
    img,            \* Image *img and what it points to
    resized,        \* Image *resized and what it points to
    scale,          \* float scale
    default_scale,  \* float default_scale
    prev_scale,     \* float prev_scale
    heap,           \* the resources held
    term,           \* the terminal's input mode
    exit_code,      \* main's return value, -1 while it runs
    fails,          \* allocation failures inside the loop so far
    steps,          \* keystrokes read, or operations applied
    hist            \* history: the last operation and the state before it

vars == <<pc, fb, img, resized, scale, default_scale, prev_scale, heap, term,
          exit_code, fails, steps, hist>>

\* at most this many allocation failures inside the keystroke loop
MaxLoopFailures == 1

\* at most this many keystrokes other than q
MaxKeys == 6

\* the values an uninitialised byte may hold
UninitBytes == {0, 165}
UninitBlocks(n) == [0 .. n - 1 -> UninitBytes]

\* the display modes of the device: <<xres, yres, bytes per pixel>>
Devices == {<<2, 1, 3>>, <<1, 2, 4>>, <<1, 1, 2>>}

\* decoded pictures: w x h pixels of 3 bytes, byte i holding i + 1
Ramp(w, h) == [w |-> w, h |-> h, data |-> [i \in 0 .. w * h * 3 - 1 |-> (i + 1) % 256]]
Pictures == {Ramp(1, 1), Ramp(2, 2), Ramp(1, 9)}

NoHist ==
    [op |-> "none", key |-> "none", scale0 |-> FZero, resized0 |-> NULL,
     resample |-> "none", nw |-> 0, nh |-> 0, unchanged |-> FALSE,
     cleared |-> FALSE, drawn |-> FALSE, flushed |-> FALSE]

Init ==
    /\ pc = "start"
    /\ fb = NULL
    /\ img = NULL
    /\ resized = NULL
    /\ scale = FZero
    /\ default_scale = FZero
    /\ prev_scale = FZero
    /\ heap = EmptyHeap
    /\ term = "cooked"
    /\ exit_code = -1
    /\ fails = 0
    /\ steps = 0
    /\ hist = NoHist

\* lines 48-51
Args ==
    /\ pc = "start"
    /\ \E argc \in 1 .. 3 :
          IF argc < 3
          THEN pc' = "exit" /\ exit_code' = 1
          ELSE pc' = "create" /\ exit_code' = exit_code
    /\ UNCHANGED <<fb, img, resized, scale, default_scale, prev_scale, heap, term,
                   fails, steps, hist>>

\* lines 54-57
OpenDevice ==
    /\ pc = "create"
    /\ \E dev \in Devices, fail \in CreateFailures :
       \E uninit \in UninitBlocks(dev[1] * dev[2] * dev[3]) :
          LET r == framebuffer_create(heap, dev, fail, uninit)
          IN  /\ fb' = r.fb
              /\ heap' = r.heap
              /\ IF r.fb = NULL
                 THEN pc' = "exit" /\ exit_code' = 1
                 ELSE pc' = "load" /\ exit_code' = exit_code
    /\ hist' = [NoHist EXCEPT !.op = "open"]
    /\ UNCHANGED <<img, resized, scale, default_scale, prev_scale, term, fails, steps>>

\* lines 60-64
LoadImage ==
    /\ pc = "load"
    /\ \E pic \in Pictures, fail \in LoadFailures :
          LET r == Image_load(heap, pic, fail)
          IN  /\ img' = r.img
              /\ IF r.img = NULL
                 THEN /\ heap' = framebuffer_destroy(r.heap, fb)
                      /\ pc' = "exit"
                      /\ exit_code' = 1
                 ELSE /\ heap' = r.heap
                      /\ pc' = "resize"
                      /\ exit_code' = exit_code
    /\ hist' = [NoHist EXCEPT !.op = "load"]
    /\ UNCHANGED <<fb, resized, scale, default_scale, prev_scale, term, fails, steps>>

\* lines 67-92: the best-fit scale, the first resize, the terminal's raw mode
InitialResize ==
    /\ pc = "resize"
    /\ \E fail \in ResizeFailures :
          LET dflt == DefaultScale(fb, img)
              resized_width == ResizedDim(img.width, dflt)
              resized_height == ResizedDim(img.height, dflt)
              r == Image_resize_linear(UseFramebuffer(heap), img, resized_width,
                               resized_height, fail)
          IN  /\ default_scale' = dflt
              /\ scale' = dflt
              /\ resized' = r.image
              /\ hist' = [NoHist EXCEPT !.op = "resize",
                                        !.resample = IF r.image = NULL THEN "failed" ELSE "ok",
                                        !.nw = resized_width, !.nh = resized_height]
              /\ IF r.image = NULL
                 THEN /\ heap' = framebuffer_destroy(Image_free(r.heap, img), fb)
                      /\ pc' = "exit"
                      /\ exit_code' = 1
                      /\ UNCHANGED <<prev_scale, term>>
                 ELSE /\ heap' = r.heap
                      /\ prev_scale' = dflt
                      /\ term' = "raw"
                      /\ pc' = "frame"
                      /\ exit_code' = exit_code
    /\ UNCHANGED <<fb, img, fails, steps>>

\* lines 98-103: clear, draw centred, flush; then the loop blocks in getchar
Frame ==
    /\ pc = "frame"
    /\ LET pos_x == CenterPos(fb.width, resized.width)
           pos_y == CenterPos(fb.height, resized.height)
       IN  fb' = framebuffer_update(
                    framebuffer_draw_image(framebuffer_clear_color(fb, 0, 0, 0),
                                         pos_x, pos_y, resized))
    /\ heap' = UseImage(UseFramebuffer(heap), resized)
    /\ hist' = [hist EXCEPT !.cleared = TRUE, !.drawn = TRUE, !.flushed = TRUE]
    /\ pc' = "getchar"
    /\ UNCHANGED <<img, resized, scale, default_scale, prev_scale, term, exit_code,
                   fails, steps>>

\* lines 135-138: the new image replaces the displayed one
SwapResized(h, old) == Image_free(h, old)

\* lines 141-148
Quit ==
    /\ heap' = framebuffer_destroy(Image_free(Image_free(heap, img), resized), fb)
    /\ term' = "cooked"
    /\ exit_code' = 0
    /\ pc' = "exit"
    /\ hist' = [NoHist EXCEPT !.op = "key", !.key = "q", !.scale0 = scale,
                              !.resized0 = resized]
    /\ UNCHANGED <<fb, img, resized, scale, default_scale, prev_scale, fails, steps>>

\* lines 106-138: one keystroke other than q
Rescale(ch, fail) ==
    LET s == Clamp(KeyScale(ch, scale, default_scale))
        before == [NoHist EXCEPT !.op = "key", !.key = ch, !.scale0 = scale,
                                 !.resized0 = resized, !.unchanged = (s = prev_scale)]
    IN  /\ steps < MaxKeys
        /\ steps' = steps + 1
        /\ scale' = s
        /\ pc' = "frame"
        /\ IF NoChange(s, prev_scale)
           THEN /\ hist' = before
                /\ UNCHANGED <<prev_scale, resized, heap, fails>>
           ELSE LET resized_width == ResizedDim(img.width, s)
                    resized_height == ResizedDim(img.height, s)
                    r == Image_resize_linear(heap, img, resized_width, resized_height, fail)
                IN  /\ prev_scale' = s
                    /\ hist' = [before EXCEPT
                                   !.resample = IF r.image = NULL THEN "failed" ELSE "ok",
                                   !.nw = resized_width, !.nh = resized_height]
                    /\ IF r.image = NULL
                       THEN /\ fails < MaxLoopFailures
                            /\ fails' = fails + 1
                            /\ heap' = r.heap
                            /\ UNCHANGED resized
                       ELSE /\ heap' = SwapResized(r.heap, resized)
                            /\ resized' = r.image
                            /\ UNCHANGED fails
        /\ UNCHANGED <<fb, img, default_scale, term, exit_code>>

Key ==
    /\ pc = "getchar"
    /\ \E ch \in Keys, fail \in ResizeFailures :
          IF ch = "q" THEN Quit ELSE Rescale(ch, fail)

Next == Args \/ OpenDevice \/ LoadImage \/ InitialResize \/ Frame \/ Key

Spec == Init /\ [][Next]_vars

(***************************************************************************)
(* The drawing operations on an open device, applied with any offsets      *)
(***************************************************************************)
\* at most this many drawing operations in a row
MaxDrawOps == 2

\* offsets range over -MaxOffset .. MaxOffset
MaxOffset == 3

DrawDevices == {<<3, 2, 3>>, <<2, 2, 4>>, <<2, 1, 2>>}

\* what the shadow buffer holds when the operations start
ShadowContents(n) == {[i \in 0 .. n - 1 |-> 0], [i \in 0 .. n - 1 |-> 100 + i]}

\* a 2 x 2 picture whose pixel (1, 1) is pure red, and one pure red pixel
Quad == [w |-> 2, h |-> 2,
         data |-> [i \in 0 .. 11 |-> <<10, 20, 30, 40, 50, 60, 70, 80, 90, 255, 0, 0>>[i + 1]]]
RedDot == [w |-> 1, h |-> 1, data |-> [i \in 0 .. 2 |-> <<255, 0, 0>>[i + 1]]]
DrawPictures == {Quad, RedDot}

Colours == {<<0, 0, 0>>, <<1, 2, 3>>}

InitDraw ==
    /\ pc = "ops"
    /\ \E dev \in DrawDevices :
       \E shadow \in ShadowContents(dev[1] * dev[2] * dev[3]) :
          LET r == framebuffer_create(EmptyHeap, dev, "none", shadow)
          IN  fb = r.fb /\ heap = r.heap
    /\ img = NULL
    /\ resized = NULL
    /\ scale = FZero
    /\ default_scale = FZero
    /\ prev_scale = FZero
    /\ term = "cooked"
    /\ exit_code = -1
    /\ fails = 0
    /\ steps = 0
    /\ hist = [op |-> "none", x |-> 0, y |-> 0, pre |-> NULL]

DrawOp ==
    /\ pc = "ops"
    /\ steps < MaxDrawOps
    /\ \E pic \in DrawPictures, x \in (0 - MaxOffset) .. MaxOffset,
          y \in (0 - MaxOffset) .. MaxOffset :
          LET image == MakeImage(1, pic.w, pic.h, pic.data)
          IN  /\ img' = image
              /\ fb' = framebuffer_draw_image(fb, x, y, image)
              /\ hist' = [op |-> "draw", x |-> x, y |-> y, pre |-> fb]
    /\ steps' = steps + 1
    /\ UNCHANGED <<pc, resized, scale, default_scale, prev_scale, heap, term,
                   exit_code, fails>>

ClearOp ==
    /\ pc = "ops"
    /\ steps < MaxDrawOps
    /\ \E rgb \in Colours :
          fb' = framebuffer_clear_color(fb, rgb[1], rgb[2], rgb[3])
    /\ hist' = [op |-> "clear", x |-> 0, y |-> 0, pre |-> fb]
    /\ steps' = steps + 1
    /\ UNCHANGED <<pc, img, resized, scale, default_scale, prev_scale, heap, term,
                   exit_code, fails>>

FlushOp ==
    /\ pc = "ops"
    /\ steps < MaxDrawOps
    /\ fb' = framebuffer_update(fb)
    /\ hist' = [op |-> "update", x |-> 0, y |-> 0, pre |-> fb]
    /\ steps' = steps + 1
    /\ UNCHANGED <<pc, img, resized, scale, default_scale, prev_scale, heap, term,
                   exit_code, fails>>

NextDraw == DrawOp \/ ClearOp \/ FlushOp

SpecDraw == InitDraw /\ [][NextDraw]_vars

(***************************************************************************)
(* Image_resize_linear applied to any source and target size               *)
(***************************************************************************)
MaxSrcWidth == 26
MaxSrcHeight == 2
MaxNewWidth == 22
MaxNewHeight == 3

InitResize ==
    /\ pc = "ops"
    /\ \E w \in 1 .. MaxSrcWidth, h \in 1 .. MaxSrcHeight :
          LET pic == Ramp(w, h)
          IN  img = MakeImage(1, pic.w, pic.h, pic.data)
    /\ heap = Alloc(Alloc(EmptyHeap, <<"image", 1>>), <<"data", 1>>)
    /\ fb = NULL
    /\ resized = NULL
    /\ scale = FZero
    /\ default_scale = FZero
    /\ prev_scale = FZero
    /\ term = "cooked"
    /\ exit_code = -1
    /\ fails = 0
    /\ steps = 0
    /\ hist = [op |-> "none", nw |-> 0, nh |-> 0]

ResizeOp ==
    /\ pc = "ops"
    /\ steps = 0
    /\ \E nw \in 1 .. MaxNewWidth, nh \in 1 .. MaxNewHeight :
          LET r == Image_resize_linear(heap, img, nw, nh, "none")
          IN  /\ resized' = r.image
              /\ heap' = r.heap
              /\ hist' = [op |-> "resize", nw |-> nw, nh |-> nh]
    /\ steps' = 1
    /\ UNCHANGED <<pc, fb, img, scale, default_scale, prev_scale, term, exit_code,
                   fails>>

NextResize == ResizeOp

SpecResize == InitResize /\ [][NextResize]_vars

(***************************************************************************)
(* The claims                                                              *)
(***************************************************************************)
InLoop == pc \in {"frame", "getchar"}

\* 0.1 <= s <= 5.0
InRange(s) == ~FLess(s, F0_1) /\ ~FLess(F5_0, s)

\* C1: in every state of the loop, the first frame included, scale lies in
\* [0.1, 5.0].
C1_ScaleBounded == InLoop => InRange(scale)

\* C2: after the key r, scale is exactly default_scale, the scale of the
\* first frame.
C2_ResetRestoresBase ==
    (InLoop /\ hist.op = "key" /\ hist.key = "r") => scale = default_scale

\* C3 as claimed: when the clamped scale equals the previous frame's scale,
\* nothing is resampled, cleared, drawn or flushed before the next read of a
\* key.
C3_NoRedrawWhenUnchanged ==
    (pc = "getchar" /\ hist.op = "key" /\ hist.unchanged) =>
        /\ hist.resample = "none"
        /\ ~hist.cleared
        /\ ~hist.drawn
        /\ ~hist.flushed

\* C3 as amended: when the clamped scale equals the previous frame's scale,
\* nothing is resampled and the displayed image stays the one it was, and the
\* loop clears, draws that image and flushes again before the next read of a
\* key.
C3_NoResampleWhenUnchanged ==
    (InLoop /\ hist.op = "key" /\ hist.unchanged) =>
        /\ hist.resample = "none"
        /\ resized = hist.resized0
        /\ prev_scale = scale
        /\ (pc = "getchar" => hist.cleared /\ hist.drawn /\ hist.flushed)

\* the key - pressed at the lower bound: the clamped scale is unchanged, and
\* the frame has been drawn again
C3_Witness ==
    /\ pc = "getchar"
    /\ hist.op = "key"
    /\ hist.key = "-"
    /\ hist.unchanged
    /\ scale = F0_1
    /\ hist.flushed

\* C4: after a resample inside the loop fails, the displayed image is the
\* one before the key and is still allocated, scale has the value it had
\* before the key, and the loop goes on.
C4_FailedResampleKeepsState ==
    (hist.op = "key" /\ hist.resample = "failed") =>
        /\ InLoop
        /\ resized = hist.resized0
        /\ <<"image", resized.addr>> \in heap.live
        /\ <<"data", resized.addr>> \in heap.live
        /\ scale = hist.scale0

\* C5: nothing is released twice or used after its release; when main has
\* returned, nothing is held any more and the terminal is in the input mode
\* it had before the program.
C5_AllReleasedOnExit ==
    /\ heap.faults = {}
    /\ pc = "exit" => (heap.live = {} /\ term = "cooked")

\* main has returned 0 after q, and a resized image was superseded on the way
C5_Witness ==
    /\ pc = "exit"
    /\ exit_code = 0
    /\ hist.key = "q"
    /\ resized.addr = 3

\* C9: after a successful open the shadow buffer has the size of the mapping,
\* width * height * bytes per pixel, and holds only zeros; so the bytes of
\* the mapping that clear and drawImage do not write are zero after a flush.
C9_ShadowBufferZeroed ==
    /\ (hist.op = "open" /\ fb # NULL) =>
          /\ DOMAIN fb.buffer = 0 .. ScreenSize(fb) - 1
          /\ DOMAIN fb.fbp = DOMAIN fb.buffer
          /\ \A i \in DOMAIN fb.buffer : fb.buffer[i] = 0
    /\ pc = "getchar" =>
          \A i \in DOMAIN fb.fbp : (fb.bpp < 3 \/ i % fb.bpp >= 3) => fb.fbp[i] = 0

\* C10: every call of resize, the first one and those of the loop, has
\* new_width >= 1 and new_height >= 1.
C10_ResizeDimsPositive ==
    (hist.op \in {"resize", "key"} /\ hist.resample # "none") =>
        (hist.nw >= 1 /\ hist.nh >= 1)

\* the device pixel (x, y) lies in the image's rectangle placed at the offsets
InPlaced(x, y) ==
    /\ hist.x <= x /\ x < hist.x + img.width
    /\ hist.y <= y /\ y < hist.y + img.height

\* C6: after drawImage on a device of 3 or more bytes per pixel, byte c
\* (c = 0, 1, 2) of every device pixel inside the placed image is channel
\* 2 - c of the source pixel at the device pixel minus the offsets.
C6_DrawCopiesReversed ==
    (hist.op = "draw" /\ fb.bpp >= 3) =>
        \A x \in 0 .. fb.width - 1, y \in 0 .. fb.height - 1 :
            InPlaced(x, y) =>
                \A c \in 0 .. 2 :
                    fb.buffer[(y * fb.width + x) * fb.bpp + c]
                        = img.data[((y - hist.y) * img.width + (x - hist.x)) * 3 + (2 - c)]

\* the 2 x 2 picture drawn at (-1, -1) on a 3-byte device: the device's pixel
\* (0, 0) comes from the pure red source pixel (1, 1) and holds 0, 0, 255
C6_Witness ==
    /\ hist.op = "draw"
    /\ hist.x = -1
    /\ hist.y = -1
    /\ img.width = 2
    /\ fb.bpp = 3
    /\ fb.buffer[0] = 0 /\ fb.buffer[1] = 0 /\ fb.buffer[2] = 255
    /\ fb.buffer # hist.pre.buffer

\* C7: drawImage changes no byte of the shadow buffer outside bytes 0..2 of
\* the device pixels inside the placed image, none at all on a device of
\* fewer than 3 bytes per pixel; neither drawImage nor clear changes the
\* device mapping.
C7_DrawTouchesOnlyVisible ==
    /\ hist.op = "draw" =>
          /\ DOMAIN fb.buffer = DOMAIN hist.pre.buffer
          /\ \A i \in DOMAIN fb.buffer :
                LET x == (i \div fb.bpp) % fb.width
                    y == (i \div fb.bpp) \div fb.width
                IN  (fb.bpp < 3 \/ i % fb.bpp >= 3 \/ ~InPlaced(x, y))
                        => fb.buffer[i] = hist.pre.buffer[i]
    /\ hist.op \in {"draw", "clear"} => fb.fbp = hist.pre.fbp

\* a picture drawn partly off a 4-byte device: some bytes changed, and the
\* mapping differs from the shadow buffer
C7_Witness ==
    /\ hist.op = "draw"
    /\ fb.bpp = 4
    /\ hist.x = 1
    /\ img.width = 2
    /\ fb.buffer # hist.pre.buffer
    /\ fb.fbp # fb.buffer

\* C8: resize returns new_width x new_height pixels of 3 bytes, and pixel
\* (x, y) of the result is source pixel (floor(x * src.width / new_width),
\* floor(y * src.height / new_height)), which lies inside the source.
C8_ResizeExactFloor ==
    hist.op = "resize" =>
        /\ resized.width = hist.nw
        /\ resized.height = hist.nh
        /\ DOMAIN resized.data = 0 .. hist.nw * hist.nh * 3 - 1
        /\ \A x \in 0 .. hist.nw - 1, y \in 0 .. hist.nh - 1 :
              LET sx == (x * img.width) \div hist.nw
                  sy == (y * img.height) \div hist.nh
              IN  /\ sx <= img.width - 1
                  /\ sy <= img.height - 1
                  /\ \A c \in 0 .. 2 :
                        resized.data[(y * hist.nw + x) * 3 + c]
                            = img.data[(sy * img.width + sx) * 3 + c]

=============================================================================
